---- MODULE Spec2Model ----
(***************************************************************************)
(* A model of _PerspectiveManagerInternal                                  *)
(* (python/perspective/perspective/manager/manager_internal.py): the       *)
(* session-level dispatcher that routes client messages to tables and      *)
(* views, gates them on the lock, keeps the callback registry and sends    *)
(* results, errors and binary payloads through the transport callback.     *)
(*                                                                         *)
(* Python values are modelled as follows.                                  *)
(*   - None is the string None ("None"); a missing dict key reads as None  *)
(*     where the code uses msg.get(key, None).                             *)
(*   - A dict of options is a set of <<key, value>> pairs with one pair    *)
(*     per key; an element of msg["args"] is [isdict, items].              *)
(*   - str(error) of an exception is the name of the exception class.      *)
(*   - The backquotes of the access-denied text are written as single      *)
(*     quotes.                                                             *)
(*   - post_callback of a client session is identified with the client     *)
(*     id of the session; every frame records the transport it went to.    *)
(***************************************************************************)
EXTENDS Integers, Sequences, FiniteSets, TLC

VARIABLES
    lock,        \* self._lock
    tables,      \* self._tables : name -> handle
    views,       \* self._views : name -> view handle (its _client_id)
    callbacks,   \* self._callback_cache : list of callback records
    bound,       \* bound callbacks the engine holds (passed to an on* method)
    pc,          \* "idle" | "returned" : position of the dispatcher
    last,        \* the call that has just returned (or raised)
    posted,      \* frames handed to post_callback by that call, in order
    calls,       \* backend operations invoked by that call, in order
    wire,        \* frames on one client's transport (concurrent delivery)
    thr,         \* position of each concurrently delivering call
    gate         \* one evaluation of _is_locked_command

vars == <<lock, tables, views, callbacks, bound, pc, last, posted, calls,
          wire, thr, gate>>

dispatchVars == <<lock, tables, views, callbacks, bound, pc, last, posted, calls>>

----------------------------------------------------------------------------
(* Bounds and input sets *)

\* at most this many records in the callback registry
MaxCallbacks == 1
\* at most this many bound callbacks held by the engine
MaxBound == 1
\* at most this many frames on the transport of the concurrent specification
MaxWire == 4

None == "None"

Ids == {1, 2}
SubscribeIds == {2}                 \* the ids of the subscribe requests
Clients == {"c1", "c2"}
TableNames == {"t"}
ViewNames == {"v", "w"}
Names == TableNames \cup ViewNames
CallbackIds == {7}
Ports == {0}

\* handles
Absent == "absent"
TableH == "Table"
PlaceholderH == "placeholder"       \* the empty list registered by line 82
ViewH == "View"

\* elements of msg["args"]
D1 == [isdict |-> TRUE, items |-> {<<"mode", "row">>, <<"index", "a">>}]
D2 == [isdict |-> TRUE, items |-> {<<"mode", "cell">>, <<"limit", "9">>}]
Rows == [isdict |-> FALSE, items |-> {}]

Methods == {"update", "remove", "replace", "clear", "delete", "schema",
            "computed_schema", "to_arrow", "to_csv", "num_rows"}
SubscribeMethods == {"on_update", "on_delete", "remove_update"}

\* what a backend call can do: return one of these values, or raise
Results == {"null", "nan", "bytes", "object"}
PerspectiveError == "PerspectiveError"
OtherError == "Exception"
CtorOutcomes == {"null", PerspectiveError, OtherError}
CallOutcomes == Results \cup {PerspectiveError}

----------------------------------------------------------------------------
(* Messages *)

Msg(id, cmd) ==
    [id |-> id, cmd |-> cmd, name |-> None, table_name |-> None,
     view_name |-> None, method |-> None, has_args |-> FALSE, args |-> <<>>,
     subscribe |-> FALSE, callback_id |-> 0, has_callback_id |-> FALSE]

\* msg.get("args", [])
GetArgs(msg) == IF msg.has_args THEN msg.args ELSE <<>>

----------------------------------------------------------------------------
(* Responses and their encoding *)

\* _make_message: {"id": id, "data": result}
MakeMessage(id, result) ==
    [id |-> id, shape |-> "data", data |-> result, error |-> None,
     is_transferable |-> FALSE, cmd |-> None, method |-> None]

\* _make_error_message: {"id": id, "error": error}
MakeErrorMessage(id, error) ==
    [id |-> id, shape |-> "error", data |-> None, error |-> error,
     is_transferable |-> FALSE, cmd |-> None, method |-> None]

\* json.dumps(message, allow_nan=False, cls=DateTimeEncoder) raises ValueError
NotJsonCompliant(message) == message.shape = "data" /\ message.data = "nan"

\* json.dumps raises TypeError: bytes and arbitrary objects are not serializable
NotSerializable(message) ==
    message.shape = "data" /\ message.data \in {"bytes", "object"}

\* the JSON text of a Python value: None is written null
JsonValue(v) == IF v = None THEN "null" ELSE v

JsonText(message) ==
    [message EXCEPT !.data = JsonValue(message.data),
                    !.error = JsonValue(message.error)]

NaNText == "JSON serialization error: Cannot serialize 'NaN', 'Infinity' or '-Infinity' to JSON."

\* _message_to_json without its except clause: the ValueError escapes
MessageToJsonNoFallback(id, message) ==
    IF NotJsonCompliant(message) \/ NotSerializable(message)
    THEN [raised |-> IF NotJsonCompliant(message) THEN "ValueError" ELSE "TypeError",
          text |-> JsonText(MakeErrorMessage(id, None))]
    ELSE [raised |-> None, text |-> JsonText(message)]

\* _message_to_json: the text returned, or the exception raised
MessageToJson(id, message) ==
    IF NotJsonCompliant(message)
    THEN [raised |-> None, text |-> JsonText(MakeErrorMessage(id, NaNText))]
    ELSE IF NotSerializable(message)
    THEN [raised |-> "TypeError", text |-> JsonText(MakeErrorMessage(id, None))]
    ELSE [raised |-> None, text |-> JsonText(message)]

\* one call of post_callback(text) or post_callback(binary, binary=True)
Frame(to, text, binary) == [to |-> to, binary |-> binary, text |-> text]

RawBinary == [id |-> 0, shape |-> "raw", data |-> "bytes", error |-> "null",
              is_transferable |-> FALSE, cmd |-> None, method |-> None]

\* post_callback(self._message_to_json(id, error message)): never raises
PostError(to, id, error) ==
    <<Frame(to, MessageToJson(id, MakeErrorMessage(id, error)).text, FALSE)>>

\* the request dict as _process_bytes sees it: it keeps the request's fields
RequestDict(msg) ==
    [id |-> msg.id, shape |-> "request", data |-> None, error |-> None,
     is_transferable |-> FALSE, cmd |-> msg.cmd, method |-> msg.method]

\* _process_bytes with lines 231 and 232 exchanged
ProcessBytesSwapped(to, msg) ==
    <<Frame(to, RawBinary, TRUE),
      Frame(to, JsonText([msg EXCEPT !.is_transferable = TRUE]), FALSE)>>

\* _process_bytes(binary, msg, post_callback): msg is a request or a response
ProcessBytes(to, msg) ==
    <<Frame(to, JsonText([msg EXCEPT !.is_transferable = TRUE]), FALSE),
      Frame(to, RawBinary, TRUE)>>

----------------------------------------------------------------------------
(* The lock gate *)

LOCKED_COMMANDS == {"table", "update", "remove", "replace", "clear"}

\* _is_locked_command without lines 317-319: a table's delete passes
IsLockedCommandNoDelete(lk, msg) ==
    IF ~lk THEN FALSE
    ELSE msg.cmd = "table" \/ msg.method \in LOCKED_COMMANDS

\* _is_locked_command
IsLockedCommand(lk, msg) ==
    IF ~lk THEN FALSE
    ELSE IF msg.cmd = "table_method" /\ msg.method = "delete" THEN TRUE
    ELSE msg.cmd = "table" \/ msg.method \in LOCKED_COMMANDS

\* the text of the access-denied error of _process
AccessDeniedText(msg) ==
    "'" \o msg.cmd \o (IF msg.method # None THEN "." \o msg.method ELSE "")
        \o "' failed - access denied"

----------------------------------------------------------------------------
(* Registries and backend handles *)

\* self._tables.get(name, None)
TableGet(name) ==
    IF name \in TableNames /\ tables[name] # Absent THEN tables[name] ELSE None

\* self._views.get(name, None)
ViewGet(name) ==
    IF name \in ViewNames /\ views[name] # Absent THEN ViewH ELSE None

\* what a handler does: the registries after it, the frames it posted, the
\* backend operations it invoked and the exception that escaped it (or None)
Same ==
    [tables |-> tables, views |-> views, callbacks |-> callbacks,
     bound |-> bound, posted |-> <<>>, calls |-> <<>>, raised |-> None]

Call(fn, on, name, pos, kw, returns) ==
    [fn |-> fn, on |-> on, name |-> name, pos |-> pos, kw |-> kw,
     returns |-> returns]

\* a positional argument that is a plain string
StrArg(s) == [isdict |-> FALSE, items |-> {<<"str", s>>}]

\* dict.update that keeps the value a key already has
DictUpdateFirstWins(d, e) == d \cup {q \in e : ~ \E p \in d : p[1] = q[1]}

\* dict.update
DictUpdate(d, e) == {p \in d : ~ \E q \in e : q[1] = p[1]} \cup e

\* for d in msg.get("args", []): args.update(d)
RECURSIVE MergeArgs(_)
MergeArgs(a) ==
    IF a = <<>> THEN {}
    ELSE DictUpdate(MergeArgs(SubSeq(a, 1, Len(a) - 1)), a[Len(a)].items)

AllDicts(a) == \A i \in 1..Len(a) : a[i].isdict

StartsWith(s, prefix, n) == SubSeq(s, 1, n) = prefix

\* getattr(table_or_view, method)(*pos, **kw): the result or the exception,
\* and the backend operation when one is invoked.  None has no attributes;
\* the placeholder of line 82 is a list, whose only method among the modelled
\* ones that can succeed is clear() without arguments.
Invoke(h, name, method, pos, kw, out) ==
    IF h = None
    THEN [raised |-> "AttributeError", result |-> None, calls |-> <<>>]
    ELSE IF h = PlaceholderH
    THEN IF method = "clear" /\ pos = <<>> /\ kw = {}
         THEN [raised |-> None, result |-> None, calls |-> <<>>]
         ELSE [raised |-> "AttributeError", result |-> None, calls |-> <<>>]
    ELSE [raised |-> IF out = PerspectiveError THEN out ELSE None,
          result |-> IF out \in {PerspectiveError, "null"} THEN None ELSE out,
          calls |-> <<Call(method, h, name, pos, kw, out)>>]

----------------------------------------------------------------------------
(* _process_method_call without subscribe: lines 113-158 *)

SchemaMethods == {"schema", "computed_schema", "get_computation_input_types"}

\* lines 113-145: the call made on the handle
InvokeMethod(msg, h, out) ==
    LET method == msg.method
        margs == GetArgs(msg)
        isTo == StartsWith(method, "to_", 3)
        kw == IF method \in SchemaMethods THEN {<<"as_string", "True">>}
              ELSE IF isTo THEN MergeArgs(margs) ELSE {}
        fail(e) == [raised |-> e, result |-> None, calls |-> <<>>]
    IN  IF method \notin SchemaMethods /\ isTo /\ ~AllDicts(margs)
        THEN fail("TypeError")
        ELSE IF isTo THEN Invoke(h, msg.name, method, <<>>, kw, out)
        ELSE IF method \in {"update", "remove"}
        THEN IF margs = <<>> THEN fail("IndexError")
             ELSE Invoke(h, msg.name, method, <<margs[1]>>,
                         IF Len(margs) > 1 /\ margs[2].isdict
                         THEN margs[2].items ELSE {}, out)
        ELSE IF method \in {"computed_schema", "get_computation_input_types"}
        THEN Invoke(h, msg.name, method, margs, kw, out)
        ELSE IF method # "delete"
        THEN \* *args of the dict built at line 116 passes its keys
             Invoke(h, msg.name, method,
                    IF method \in SchemaMethods THEN <<StrArg("as_string")>>
                    ELSE margs, {}, out)
        ELSE fail("UnboundLocalError")

\* lines 146-158 with an except clause that drops the error
RespondSilentOnError(msg, to, inv) ==
    IF inv.raised # None THEN <<>>
    ELSE IF inv.result = "bytes" /\ msg.method # "to_csv"
    THEN ProcessBytes(to, RequestDict(msg))
    ELSE LET j == MessageToJson(msg.id, MakeMessage(msg.id, inv.result))
         IN  IF j.raised # None THEN <<>>
             ELSE <<Frame(to, j.text, FALSE)>>

\* lines 146-158: the frames that answer the call
Respond(msg, to, inv) ==
    IF inv.raised # None THEN PostError(to, msg.id, inv.raised)
    ELSE IF inv.result = "bytes" /\ msg.method # "to_csv"
    THEN ProcessBytes(to, RequestDict(msg))
    ELSE LET j == MessageToJson(msg.id, MakeMessage(msg.id, inv.result))
         IN  IF j.raised # None THEN PostError(to, msg.id, j.raised)
             ELSE <<Frame(to, j.text, FALSE)>>

\* _process_method_call with a delete of a table that drops the table from
\* the table registry, as lines 124-128 do for a view
MethodCallDeletesTable(msg, h, to, out) ==
    IF msg.method = "delete" /\ msg.cmd = "view_method"
    THEN IF ViewGet(msg.name) = None
         THEN [Same EXCEPT !.posted = PostError(to, msg.id, "KeyError")]
         ELSE [Same EXCEPT
                 !.views = [views EXCEPT ![msg.name] = Absent],
                 !.calls = <<Call("delete", ViewH, msg.name, <<>>, {}, "null")>>]
    ELSE IF msg.method = "delete" /\ h # None
    THEN [Same EXCEPT
            !.tables = [tables EXCEPT ![msg.name] = Absent],
            !.calls = <<Call("delete", h, msg.name, <<>>, {}, "null")>>]
    ELSE LET inv == InvokeMethod(msg, h, out)
         IN  [Same EXCEPT !.posted = Respond(msg, to, inv),
                          !.calls = inv.calls]

\* lines 124-128 (a view's delete: "delete" assembles no arguments that can
\* fail before them), else the call and its answer
MethodCall(msg, h, to, out) ==
    IF msg.method = "delete" /\ msg.cmd = "view_method"
    THEN IF ViewGet(msg.name) = None
         THEN [Same EXCEPT !.posted = PostError(to, msg.id, "KeyError")]
         ELSE [Same EXCEPT
                 !.views = [views EXCEPT ![msg.name] = Absent],
                 !.calls = <<Call("delete", ViewH, msg.name, <<>>, {}, "null")>>]
    ELSE LET inv == InvokeMethod(msg, h, out)
         IN  [Same EXCEPT !.posted = Respond(msg, to, inv),
                          !.calls = inv.calls]

----------------------------------------------------------------------------
(* _process_subscribe: lines 173-209 *)

\* _callback_cache.add_callback
AddCallback(cbs, record) == Append(cbs, record)

\* _callback_cache.remove_callbacks(condition): condition is given as the
\* set of the records it holds of
RemoveCallbacks(cbs, condition) == SelectSeq(cbs, LAMBDA cb : cb \notin condition)

ModeNone == [isdict |-> TRUE, items |-> {<<"mode", "none">>}]

\* _process_subscribe that takes the record back when the invocation raises
ProcessSubscribeRollsBack(msg, h, to, client_id, out) ==
    LET method == msg.method
        margs == GetArgs(msg)
        isOn == method # None /\ StartsWith(method, "on", 2)
        truthy == msg.has_callback_id /\ msg.callback_id # 0
        callback == [id |-> msg.id, to |-> to]
        record == [client_id |-> client_id, callback_id |-> msg.callback_id,
                   callback |-> callback, name |-> msg.name]
        differs == {callbacks[i] : i \in {j \in 1..Len(callbacks) :
                        callbacks[j].callback_id # msg.callback_id}}
        cbs == IF isOn
               THEN IF truthy THEN AddCallback(callbacks, record) ELSE callbacks
               ELSE IF msg.has_callback_id
               THEN RemoveCallbacks(callbacks, differs)
               ELSE callbacks
        mode == IF Len(margs) > 0 THEN margs[1] ELSE ModeNone
        inv == IF method = "on_update"
               THEN IF h \notin {None, PlaceholderH} /\ ~mode.isdict
                    THEN [raised |-> "TypeError", result |-> None, calls |-> <<>>]
                    ELSE Invoke(h, msg.name, method, <<StrArg("callback")>>,
                                mode.items, out)
               ELSE Invoke(h, msg.name, method, <<StrArg("callback")>>, {}, out)
    IN  IF ~isOn THEN [Same EXCEPT !.callbacks = cbs]
        ELSE IF inv.raised # None
        THEN [Same EXCEPT !.calls = inv.calls,
                          !.posted = PostError(to, msg.id, inv.raised)]
        ELSE [Same EXCEPT !.callbacks = cbs, !.calls = inv.calls,
                          !.bound = bound \cup {callback}]

ProcessSubscribe(msg, h, to, client_id, out) ==
    LET method == msg.method
        margs == GetArgs(msg)
        isOn == method # None /\ StartsWith(method, "on", 2)
        truthy == msg.has_callback_id /\ msg.callback_id # 0
        callback == [id |-> msg.id, to |-> to]
        record == [client_id |-> client_id, callback_id |-> msg.callback_id,
                   callback |-> callback, name |-> msg.name]
        differs == {callbacks[i] : i \in {j \in 1..Len(callbacks) :
                        callbacks[j].callback_id # msg.callback_id}}
        cbs == IF isOn
               THEN IF truthy THEN AddCallback(callbacks, record) ELSE callbacks
               ELSE IF msg.has_callback_id
               THEN RemoveCallbacks(callbacks, differs)
               ELSE callbacks
        mode == IF Len(margs) > 0 THEN margs[1] ELSE ModeNone
        inv == IF method = "on_update"
               THEN IF h \notin {None, PlaceholderH} /\ ~mode.isdict
                    THEN [raised |-> "TypeError", result |-> None, calls |-> <<>>]
                    ELSE Invoke(h, msg.name, method, <<StrArg("callback")>>,
                                mode.items, out)
               ELSE Invoke(h, msg.name, method, <<StrArg("callback")>>, {}, out)
    IN  IF ~isOn THEN [Same EXCEPT !.callbacks = cbs]
        ELSE IF inv.raised # None
        THEN [Same EXCEPT !.callbacks = cbs, !.calls = inv.calls,
                          !.posted = PostError(to, msg.id, inv.raised)]
        ELSE [Same EXCEPT !.callbacks = cbs, !.calls = inv.calls,
                          !.bound = bound \cup {callback}]

----------------------------------------------------------------------------
(* _process_method_call: lines 96-158 *)

ProcessMethodCall(msg, to, client_id, out) ==
    LET h == IF msg.cmd = "table_method" THEN TableGet(msg.name)
             ELSE ViewGet(msg.name)
        notInitialized ==
            IF msg.cmd # "table_method" /\ h = None
            THEN PostError(to, msg.id, "View is not initialized")
            ELSE <<>>
        e == IF msg.subscribe
             THEN ProcessSubscribe(msg, h, to, client_id, out)
             ELSE MethodCall(msg, h, to, out)
    IN  [e EXCEPT !.posted = notInitialized \o e.posted]

----------------------------------------------------------------------------
(* _process: lines 39-94 *)

ProcessTable(msg, to, out) ==
    IF ~msg.has_args THEN [Same EXCEPT !.raised = "KeyError"]
    ELSE IF msg.args = <<>>
    THEN [Same EXCEPT !.tables = [tables EXCEPT ![msg.name] = PlaceholderH]]
    ELSE LET c == <<Call("Table", "constructor", msg.name, <<msg.args[1]>>, {}, out)>>
         IN  IF out = PerspectiveError
             THEN [Same EXCEPT !.calls = c,
                               !.posted = PostError(to, msg.id, out)]
             ELSE IF out = OtherError
             THEN [Same EXCEPT !.calls = c, !.raised = out]
             ELSE [Same EXCEPT !.calls = c,
                               !.tables = [tables EXCEPT ![msg.name] = TableH]]

ProcessView(msg, to, client_id, out) ==
    LET h == TableGet(msg.table_name)
        c == <<Call("view", TableH, msg.table_name, <<>>, {}, out)>>
    IN  IF h = None THEN [Same EXCEPT !.raised = "KeyError"]
        ELSE IF h = PlaceholderH THEN [Same EXCEPT !.raised = "AttributeError"]
        ELSE IF out = PerspectiveError
        THEN [Same EXCEPT !.calls = c, !.posted = PostError(to, msg.id, out)]
        ELSE IF out = OtherError
        THEN [Same EXCEPT !.calls = c, !.raised = out]
        ELSE [Same EXCEPT !.calls = c,
                          !.views = [views EXCEPT ![msg.view_name] = client_id]]

\* _process with a lock gate that also rejects the delete of a view
ProcessLockedViewDelete(msg, to, client_id, out) ==
    IF IsLockedCommand(lock, msg) \/ (lock /\ msg.method = "delete")
    THEN [Same EXCEPT !.posted = PostError(to, msg.id, AccessDeniedText(msg))]
    ELSE IF msg.cmd = "init"
    THEN [Same EXCEPT !.posted =
            <<Frame(to, MessageToJson(msg.id, MakeMessage(msg.id, None)).text, FALSE)>>]
    ELSE IF msg.cmd = "table" THEN ProcessTable(msg, to, out)
    ELSE IF msg.cmd = "view" THEN ProcessView(msg, to, client_id, out)
    ELSE IF msg.cmd \in {"table_method", "view_method"}
    THEN ProcessMethodCall(msg, to, client_id, out)
    ELSE Same

Process(msg, to, client_id, out) ==
    IF IsLockedCommand(lock, msg)
    THEN [Same EXCEPT !.posted = PostError(to, msg.id, AccessDeniedText(msg))]
    ELSE IF msg.cmd = "init"
    THEN [Same EXCEPT !.posted =
            <<Frame(to, MessageToJson(msg.id, MakeMessage(msg.id, None)).text, FALSE)>>]
    ELSE IF msg.cmd = "table" THEN ProcessTable(msg, to, out)
    ELSE IF msg.cmd = "view" THEN ProcessView(msg, to, client_id, out)
    ELSE IF msg.cmd \in {"table_method", "view_method"}
    THEN ProcessMethodCall(msg, to, client_id, out)
    ELSE Same

----------------------------------------------------------------------------
(* clear_views: lines 249-266 *)

RECURSIVE DeleteCalls(_)
DeleteCalls(names) ==
    IF names = {} THEN <<>>
    ELSE LET n == CHOOSE x \in names : TRUE
         IN  <<Call("delete", ViewH, n, <<>>, {}, "null")>> \o DeleteCalls(names \ {n})

\* clear_views without the test of line 258: every view is collected
ClearViewsAnyClient(client_id) ==
    IF client_id = None
    THEN [Same EXCEPT !.raised = PerspectiveError]
    ELSE LET names == {n \in ViewNames : views[n] # Absent}
         IN  [Same EXCEPT
                !.views = [n \in ViewNames |-> Absent],
                !.calls = DeleteCalls(names)]

ClearViews(client_id) ==
    IF client_id = None
    THEN [Same EXCEPT !.raised = PerspectiveError]
    ELSE LET names == {n \in ViewNames : views[n] = client_id}
         IN  [Same EXCEPT
                !.views = [n \in ViewNames |->
                             IF n \in names THEN Absent ELSE views[n]],
                !.calls = DeleteCalls(names)]

----------------------------------------------------------------------------
(* callback: lines 234-247 *)

PortData(port) == "port_id:" \o ToString(port)

\* callback without lines 244-245: a bytes argument is not transferred
CallbackAlwaysJson(cb, port, arg2) ==
    LET msg == MakeMessage(cb.id, PortData(port))
    IN  <<Frame(cb.to, MessageToJson(msg.id, msg).text, FALSE)>>

\* arg2 is the second positional argument: "absent", "bytes" or "other"
Callback(cb, port, arg2) ==
    LET msg == MakeMessage(cb.id, PortData(port))
    IN  IF arg2 = "bytes" THEN ProcessBytes(cb.to, msg)
        ELSE <<Frame(cb.to, MessageToJson(msg.id, msg).text, FALSE)>>

----------------------------------------------------------------------------
(* The dispatcher, one call at a time *)

NoMsg == Msg(0, None)
Idle == [op |-> "none", msg |-> NoMsg, client_id |-> None, raised |-> None,
         arg2 |-> None]
NoGate == [lk |-> FALSE, cmd |-> None, method |-> None, result |-> "unset"]
Threads == {"request", "engine"}
NoThreads == [t \in Threads |-> <<>>]

\* the manager when it starts to serve messages: the lock is set at
\* construction, and the host may have put tables of its own in the table
\* registry (the only way a locked manager comes to hold one)
Init ==
    /\ lock \in BOOLEAN
    /\ tables \in [TableNames -> {Absent, TableH}]
    /\ views = [n \in ViewNames |-> Absent]
    /\ callbacks = <<>>
    /\ bound = {}
    /\ pc = "idle"
    /\ last = Idle
    /\ posted = <<>>
    /\ calls = <<>>
    /\ wire = <<>>
    /\ thr = NoThreads
    /\ gate = NoGate

Handle(op, msg, client_id, arg2, e) ==
    /\ Len(e.callbacks) <= MaxCallbacks
    /\ Cardinality(e.bound) <= MaxBound
    /\ tables' = e.tables
    /\ views' = e.views
    /\ callbacks' = e.callbacks
    /\ bound' = e.bound
    /\ posted' = e.posted
    /\ calls' = e.calls
    /\ last' = [op |-> op, msg |-> msg, client_id |-> client_id,
                raised |-> e.raised, arg2 |-> arg2]
    /\ pc' = "returned"
    /\ UNCHANGED <<lock, wire, thr, gate>>

TableMsgs ==
    {[Msg(i, "table") EXCEPT !.name = n, !.has_args = a[1], !.args = a[2]] :
        i \in Ids, n \in TableNames,
        a \in {<<FALSE, <<>>>>, <<TRUE, <<>>>>, <<TRUE, <<D1>>>>}}

ViewMsgs ==
    {[Msg(i, "view") EXCEPT !.table_name = t, !.view_name = v] :
        i \in Ids, t \in {"t", "v"}, v \in ViewNames}

\* the argument lists tried with a method: those its argument shaping tells apart
ArgsFor(m) ==
    IF m \in {"update", "remove"} THEN {<<>>, <<D1>>, <<Rows, D1>>}
    ELSE IF StartsWith(m, "to_", 3) THEN {<<>>, <<D1, D2>>, <<Rows, D1>>}
    ELSE IF m \in {"delete", "schema"} THEN {<<>>}
    ELSE {<<>>, <<D1>>}

\* the handles a method call is tried on: for each cmd, a name that can
\* resolve in its registry and one that cannot
MethodTargets ==
    {<<"table_method", "t">>, <<"table_method", "v">>,
     <<"view_method", "v">>, <<"view_method", "w">>}

MethodMsgs ==
    UNION {{[Msg(i, c[1]) EXCEPT !.name = c[2], !.method = m, !.has_args = TRUE,
                                 !.args = a] :
               i \in Ids, a \in ArgsFor(m), c \in MethodTargets} : m \in Methods}

\* the sessions that send the method calls without subscribe: the session is
\* only the destination of their frames
MethodSenders == {"c1"}

\* msg.get("callback_id", None): absent, or supplied; a supplied id can be 0,
\* which line 182 takes for false and line 189 takes for an id
CallbackIdInputs ==
    {<<FALSE, 0>>, <<TRUE, 0>>} \cup {<<TRUE, x>> : x \in CallbackIds}

SubscribeMsgs ==
    {[Msg(i, c) EXCEPT !.name = n, !.method = m, !.has_args = TRUE, !.args = a,
                       !.subscribe = TRUE, !.has_callback_id = k[1],
                       !.callback_id = k[2]] :
        i \in SubscribeIds, c \in {"table_method", "view_method"}, n \in Names,
        m \in SubscribeMethods, a \in {<<>>, <<D1>>}, k \in CallbackIdInputs}

\* the outcomes a backend operation can have, when the message reaches one
OutcomesFor(msg) ==
    LET h == IF msg.cmd = "table_method" THEN TableGet(msg.name)
             ELSE ViewGet(msg.name)
    IN  IF h \in {TableH, ViewH}
        THEN IF msg.subscribe THEN {"null", PerspectiveError} ELSE CallOutcomes
        ELSE {"null"}

Heartbeat ==
    /\ pc = "idle"
    /\ \E c \in Clients : Handle("heartbeat", NoMsg, c, None, Same)

ProcessInitMsg ==
    /\ pc = "idle"
    /\ \E i \in Ids, c \in Clients :
           Handle("process", Msg(i, "init"), c, None, Process(Msg(i, "init"), c, c, "null"))

ProcessTableMsg ==
    /\ pc = "idle"
    /\ \E msg \in TableMsgs, c \in Clients, out \in CtorOutcomes :
           Handle("process", msg, c, None, Process(msg, c, c, out))

ProcessViewMsg ==
    /\ pc = "idle"
    /\ \E msg \in ViewMsgs, c \in Clients, out \in CtorOutcomes :
           Handle("process", msg, c, None, Process(msg, c, c, out))

ProcessMethodMsg ==
    /\ pc = "idle"
    /\ \E msg \in MethodMsgs, c \in MethodSenders :
           \E out \in OutcomesFor(msg) :
               Handle("process", msg, c, None, Process(msg, c, c, out))

ProcessSubscribeMsg ==
    /\ pc = "idle"
    /\ \E msg \in SubscribeMsgs, c \in Clients :
           \E out \in OutcomesFor(msg) :
               Handle("process", msg, c, None, Process(msg, c, c, out))

ClearViewsCall ==
    /\ pc = "idle"
    /\ \E c \in Clients \cup {None} :
           Handle("clear_views", NoMsg, c, None, ClearViews(c))

FireCallback ==
    /\ pc = "idle"
    /\ \E cb \in bound, port \in Ports, arg2 \in {"absent", "bytes", "other"} :
           Handle("callback", Msg(cb.id, None), cb.to, arg2,
                  [Same EXCEPT !.posted = Callback(cb, port, arg2)])

\* the call has returned: the next one starts from the registries it left
Return ==
    /\ pc = "returned"
    /\ pc' = "idle"
    /\ last' = Idle
    /\ posted' = <<>>
    /\ calls' = <<>>
    /\ UNCHANGED <<lock, tables, views, callbacks, bound, wire, thr, gate>>

Next ==
    \/ Heartbeat
    \/ ProcessInitMsg
    \/ ProcessTableMsg
    \/ ProcessViewMsg
    \/ ProcessMethodMsg
    \/ ProcessSubscribeMsg
    \/ ClearViewsCall
    \/ FireCallback
    \/ Return

Spec == Init /\ [][Next]_vars

----------------------------------------------------------------------------
(* Properties of the dispatcher *)

Returned(op) == pc = "returned" /\ last.op = op

MethodCmds == {"table_method", "view_method"}

\* some frame of the call carries the request's id
Answered == \E i \in 1..Len(posted) : ~posted[i].binary /\ posted[i].text.id = last.msg.id

DataNull(to, id) ==
    Frame(to, [id |-> id, shape |-> "data", data |-> "null", error |-> "null",
               is_transferable |-> FALSE, cmd |-> None, method |-> None], FALSE)

ErrorFrame(to, id, error) ==
    Frame(to, [id |-> id, shape |-> "error", data |-> "null", error |-> error,
               is_transferable |-> FALSE, cmd |-> None, method |-> None], FALSE)

\* the command created the table or the view it asked for
Created ==
    /\ last.raised = None
    /\ calls # <<>>
    /\ calls[1].returns = "null"
    /\ calls[1].fn \in {"Table", "view"}

ViewDeleted ==
    /\ last.msg.cmd = "view_method"
    /\ last.msg.method = "delete"
    /\ calls # <<>>

Mutating == {"update", "remove", "replace", "clear"}

LockClaimed(msg) ==
    \/ msg.cmd = "table"
    \/ msg.cmd \in MethodCmds /\ msg.method \in Mutating
    \/ msg.cmd = "table_method" /\ msg.method = "delete"

DeniedLabel(msg) ==
    IF msg.method = None THEN msg.cmd ELSE msg.cmd \o "." \o msg.method

IsDenial(frame) ==
    /\ ~frame.binary
    /\ frame.text.shape = "error"
    /\ \E c \in {"table"} \cup MethodCmds, m \in Methods \cup SubscribeMethods \cup {None} :
          frame.text.error = "'" \o DeniedLabel([cmd |-> c, method |-> m])
                               \o "' failed - access denied"

\* C2: on a locked manager a table command, an update, remove, replace or
\* clear method call and a table_method delete are answered with exactly one
\* error frame "'<cmd>.<method>' failed - access denied" for the request's id,
\* the three registries stay as they were and no backend operation is
\* invoked; a view_method delete is never answered with an access-denied frame.
C2_LockedRejected ==
    [][(pc' = "returned" /\ last'.op = "process" /\ lock)
        => /\ LockClaimed(last'.msg)
             => /\ posted' = <<ErrorFrame(last'.client_id, last'.msg.id,
                                 "'" \o DeniedLabel(last'.msg)
                                     \o "' failed - access denied")>>
                /\ tables' = tables
                /\ views' = views
                /\ callbacks' = callbacks
                /\ calls' = <<>>
                /\ last'.raised = None
           /\ (last'.msg.cmd = "view_method" /\ last'.msg.method = "delete")
             => \A i \in 1..Len(posted') : ~IsDenial(posted'[i])]_vars

\* a locked manager holding a callback record has rejected a view_method clear
C2_Witness ==
    /\ Returned("process")
    /\ lock
    /\ callbacks # <<>>
    /\ last.msg.cmd = "view_method"
    /\ last.msg.method = "clear"
    /\ Len(posted) = 1
    /\ IsDenial(posted[1])

\* the view named by the view_method message was not registered when it came
Unresolved ==
    /\ last.msg.cmd = "view_method"
    /\ ViewGet(last.msg.name) = None
    /\ ~ViewDeleted

\* C4: a view_method message that passes the lock and names no registered
\* view is answered with exactly one error frame, "View is not initialized",
\* for the request's id, and no backend operation is invoked.
C4_UnresolvedViewOneError ==
    (Returned("process") /\ Unresolved /\ ~IsLockedCommand(lock, last.msg))
    => /\ posted = <<ErrorFrame(last.client_id, last.msg.id, "View is not initialized")>>
       /\ calls = <<>>

\* C5: no exception escapes _process.
C5_NoExceptionEscapes ==
    Returned("process") => last.raised = None

\* the names on which the call invoked delete
DeletedNames == {calls[i].name : i \in {j \in 1..Len(calls) : calls[j].fn = "delete"}}

Announces(frame, to, id) ==
    /\ ~frame.binary
    /\ frame.to = to
    /\ frame.text.is_transferable
    /\ frame.text.id = id

\* the call sends a binary payload
SendsBinary ==
    \/ Returned("callback") /\ last.arg2 = "bytes"
    \/ /\ Returned("process")
       /\ last.msg.cmd \in MethodCmds
       /\ ~last.msg.subscribe
       /\ last.msg.method # "to_csv"
       /\ calls # <<>>
       /\ calls[1].returns = "bytes"

\* C7: a call that sends a binary payload delivers exactly two frames, the
\* JSON announcement with is_transferable true and the id of the originating
\* message, then the raw payload with binary=true, both on the transport of
\* the call; and no call delivers a binary frame or an announcement otherwise.
C7_BinaryFraming ==
    /\ SendsBinary
         => /\ Len(posted) = 2
            /\ Announces(posted[1], last.client_id, last.msg.id)
            /\ posted[2] = Frame(last.client_id, RawBinary, TRUE)
    /\ ~SendsBinary
         => \A i \in 1..Len(posted) :
               ~posted[i].binary /\ ~posted[i].text.is_transferable

\* a fired subscription callback has sent a bytes payload
C7_Witness ==
    /\ Returned("callback")
    /\ last.arg2 = "bytes"
    /\ Len(posted) = 2
    /\ posted[2].binary

\* C9: on an unlocked manager a table command that did not fail leaves its
\* name in the table registry, and a table command with no positional
\* argument (args empty or absent) registers the placeholder and does not fail.
C9_TableRegistered ==
    (Returned("process") /\ ~lock /\ last.msg.cmd = "table")
    => /\ (last.raised = None /\ posted = <<>>) => TableGet(last.msg.name) # None
       /\ (~last.msg.has_args \/ last.msg.args = <<>>)
            => /\ last.raised = None
               /\ TableGet(last.msg.name) = PlaceholderH

\* the backend returned a result holding NaN or an infinity
ResultNaN ==
    /\ Returned("process")
    /\ last.msg.cmd \in MethodCmds
    /\ ~last.msg.subscribe
    /\ calls # <<>>
    /\ calls[1].returns = "nan"

\* C10: when the result of a method call holds NaN, Infinity or -Infinity the
\* request is answered with exactly one frame, an error response with the
\* request's id whose text names them, and nothing is raised.
C10_NaNBecomesError ==
    ResultNaN
    => /\ posted = <<ErrorFrame(last.client_id, last.msg.id,
           "JSON serialization error: Cannot serialize 'NaN', 'Infinity' or '-Infinity' to JSON.")>>
       /\ last.raised = None

C10_Witness ==
    /\ ResultNaN
    /\ last.msg.cmd = "view_method"
    /\ Len(posted) = 1
    /\ posted[1].text.shape = "error"


\* C11: every frame that announces a binary payload is a response {id, data}
\* or {id, error} with is_transferable added, after a method call as after a
\* fired callback, and carries no cmd and no method of a request.
C11_AnnouncementIsResponse ==
    \A i \in 1..Len(posted) :
        (~posted[i].binary /\ posted[i].text.is_transferable)
        => /\ posted[i].text.shape \in {"data", "error"}
           /\ posted[i].text.cmd = None
           /\ posted[i].text.method = None

\* C12: a view_method message with subscribe true whose name is not in the
\* view registry leaves the callback registry as it was.
C12_UnresolvedSubscribeKeepsRegistry ==
    [][(/\ pc' = "returned"
        /\ last'.op = "process"
        /\ last'.msg.cmd = "view_method"
        /\ last'.msg.subscribe
        /\ ViewGet(last'.msg.name) = None)
       => callbacks' = callbacks]_vars


\* a table_method delete has been handled by an unlocked manager
TableDelete ==
    /\ last.op = "process"
    /\ ~lock
    /\ last.msg.cmd = "table_method"
    /\ last.msg.method = "delete"

\* C13: no message and no clear_views call removes a name from the table
\* registry (a registered name stays registered, possibly with a newer
\* handle), and a table_method delete on an unlocked manager leaves the table
\* registry as it was.
C13_TablesNeverRemoved ==
    [][/\ \A n \in TableNames : tables[n] # Absent => tables'[n] # Absent
       /\ (pc' = "returned" /\ TableDelete') => tables' = tables]_vars

\* an unlocked manager has handled a delete of a registered table: the table
\* is still registered and the request got an error frame
C13_Witness ==
    /\ pc = "returned"
    /\ TableDelete
    /\ TableGet(last.msg.name) = TableH
    /\ Len(posted) = 1
    /\ posted[1].text.shape = "error"


Invoked ==
    /\ Returned("process")
    /\ last.msg.cmd \in MethodCmds
    /\ ~last.msg.subscribe
    /\ calls # <<>>
    /\ calls[1].fn = last.msg.method

\* C15: a method call without subscribe for schema, computed_schema or
\* get_computation_input_types invokes the method with the keyword argument
\* as_string=True, and as_string is not passed as a positional argument.
C15_SchemaKeywordFlag ==
    (Invoked /\ last.msg.method \in SchemaMethods)
    => /\ <<"as_string", "True">> \in calls[1].kw
       /\ \A i \in 1..Len(calls[1].pos) : calls[1].pos[i] # StrArg("as_string")

HasKey(d, k) == \E p \in d.items : p[1] = k

\* C16: a method call without subscribe whose method begins with 'to_'
\* invokes the method with no positional argument and with keyword arguments
\* equal to the merge of the elements of args in order: every key of every
\* element, each with the value of the last element that has it.
C16_ToMergesOptions ==
    (Invoked /\ StartsWith(last.msg.method, "to_", 3))
    => LET a == GetArgs(last.msg)
       IN  /\ calls[1].pos = <<>>
           /\ \A p \in calls[1].kw :
                 \E i \in 1..Len(a) : p \in a[i].items
           /\ \A i \in 1..Len(a) : \A p \in a[i].items :
                 IF \E j \in (i + 1)..Len(a) : HasKey(a[j], p[1])
                 THEN TRUE
                 ELSE p \in calls[1].kw
           /\ \A p \in calls[1].kw : \A q \in calls[1].kw : p[1] = q[1] => p = q

\* an export has been invoked with two option dicts that share a key
C16_Witness ==
    /\ Invoked
    /\ last.msg.method = "to_arrow"
    /\ last.msg.args = <<D1, D2>>
    /\ calls[1].kw = {<<"mode", "cell">>, <<"index", "a">>, <<"limit", "9">>}


\* a subscribe request whose method begins with 'on' has been handled
Registering ==
    /\ Returned("process")
    /\ last.msg.cmd \in MethodCmds
    /\ last.msg.subscribe
    /\ StartsWith(last.msg.method, "on", 2)

\* the callback record of the request just handled
RecordOfLast ==
    [client_id |-> last.client_id, callback_id |-> last.msg.callback_id,
     callback |-> [id |-> last.msg.id, to |-> last.client_id],
     name |-> last.msg.name]

\* the keyword configuration claimed for the invocation of an on* method
ClaimedMode(msg) ==
    IF msg.method # "on_update" THEN {}
    ELSE IF Len(GetArgs(msg)) > 0 THEN GetArgs(msg)[1].items
    ELSE {<<"mode", "none">>}

\* C17: a subscribe request whose method begins with 'on' adds its callback
\* record to the callback registry if and only if a callback_id was supplied;
\* on a resolved handle it then invokes the method with the bound callback,
\* for on_update with {mode: 'none'} unless args has a first element, which is
\* then the configuration; when the invocation succeeds it delivers no frame.
C17_RegistersIffSupplied ==
    [][(pc' = "returned" /\ Registering')
       => /\ callbacks' = IF last'.msg.has_callback_id
                          THEN Append(callbacks, RecordOfLast')
                          ELSE callbacks
          /\ (IF last'.msg.cmd = "table_method" THEN TableGet(last'.msg.name)
              ELSE ViewGet(last'.msg.name)) \in {TableH, ViewH}
             => /\ Len(calls') = 1
                /\ calls'[1].fn = last'.msg.method
                /\ calls'[1].pos = <<StrArg("callback")>>
                /\ calls'[1].kw = ClaimedMode(last'.msg)
                /\ calls'[1].returns = "null" => posted' = <<>>]_vars


\* a subscribe request with a callback_id whose method does not begin with
\* 'on' has been handled
Unsubscribing ==
    /\ Returned("process")
    /\ last.msg.cmd \in MethodCmds
    /\ last.msg.subscribe
    /\ ~StartsWith(last.msg.method, "on", 2)
    /\ last.msg.has_callback_id

\* C18: a subscribe request with a callback_id and a method that does not
\* begin with 'on' removes every callback record whose callback id differs
\* from the given id, of any client and any resource, keeps every record with
\* the given id, invokes no backend method and delivers no frame.
C18_BulkRemoval ==
    [][(pc' = "returned" /\ Unsubscribing')
       => /\ callbacks' = SelectSeq(callbacks,
                 LAMBDA cb : cb.callback_id = last'.msg.callback_id)
          /\ calls' = <<>>
          /\ posted' = <<>>]_vars

\* the response {id, data: {port_id: port}}, transferable or not
PortMessage(id, port, transferable) ==
    [id |-> id, shape |-> "data", data |-> "port_id:" \o ToString(port),
     error |-> "null", is_transferable |-> transferable, cmd |-> None,
     method |-> None]

\* C19: whenever the engine fires a bound callback, the message {id, data:
\* {port_id: first argument}} with the id of the subscribe request is
\* delivered on the transport captured at subscription: as one JSON frame,
\* or, when the second argument is a bytes payload, as the announcement and
\* the raw binary frame; whatever views and callback records remain.
C19_FiredCallbackDelivers ==
    [][(pc' = "returned" /\ last'.op = "callback")
       => \E cb \in bound, port \in Ports :
             /\ last'.msg.id = cb.id
             /\ posted' =
                  IF last'.arg2 = "bytes"
                  THEN <<Frame(cb.to, PortMessage(cb.id, port, TRUE), FALSE),
                         Frame(cb.to, RawBinary, TRUE)>>
                  ELSE <<Frame(cb.to, PortMessage(cb.id, port, FALSE), FALSE)>>
             /\ last'.raised = None]_vars

\* a bound callback has fired with a bytes payload when no view and no
\* callback record is left
C19_Witness ==
    /\ Returned("callback")
    /\ last.arg2 = "bytes"
    /\ Len(posted) = 2
    /\ posted[1].text.data = "port_id:0"
    /\ callbacks = <<>>
    /\ \A n \in ViewNames : views[n] = Absent

\* a registering subscribe request with a callback_id that registers has
\* ended in an error response
RegistrationFailed ==
    /\ Registering
    /\ last.msg.has_callback_id
    /\ last.msg.callback_id # 0
    /\ Len(posted) > 0
    /\ posted[Len(posted)].text.shape = "error"

\* C20: when a registering subscribe request with a callback_id ends in an
\* error response because the invocation of the on* method raised, the
\* callback record added for the request is still in the callback registry.
C20_NoRollback ==
    [][(pc' = "returned" /\ RegistrationFailed')
       => callbacks' = Append(callbacks, RecordOfLast')]_vars

\* the on* method of a resolved handle raised and the record is in the registry
C20_Witness ==
    /\ RegistrationFailed
    /\ calls # <<>>
    /\ calls[1].returns = PerspectiveError
    /\ callbacks # <<>>
    /\ callbacks[Len(callbacks)] = RecordOfLast

----------------------------------------------------------------------------
(* The lock gate as a function: every (lock, cmd, method) *)

GateCmds == {"init", "table", "view", "table_method", "view_method"}
GateMethods == Methods \cup SubscribeMethods \cup {None, "table"}

InitGate ==
    /\ lock \in BOOLEAN
    /\ tables = [n \in TableNames |-> Absent]
    /\ views = [n \in ViewNames |-> Absent]
    /\ callbacks = <<>>
    /\ bound = {}
    /\ pc = "idle"
    /\ last = Idle
    /\ posted = <<>>
    /\ calls = <<>>
    /\ wire = <<>>
    /\ thr = NoThreads
    /\ gate \in {[lk |-> lock, cmd |-> c, method |-> m, result |-> "unset"] :
                    c \in GateCmds, m \in GateMethods}

EvaluateGate ==
    /\ gate.result = "unset"
    /\ gate' = [gate EXCEPT !.result =
                  IF IsLockedCommand(lock, gate) THEN "True" ELSE "False"]
    /\ UNCHANGED <<dispatchVars, wire, thr>>

NextGate == EvaluateGate

SpecGate == InitGate /\ [][NextGate]_vars

\* C3: _is_locked_command returns True exactly when the manager is locked
\* and cmd is table, or cmd is table_method or view_method with method update,
\* remove, replace or clear, or cmd is table_method with method delete.
C3_GateExact ==
    gate.result # "unset"
    => (gate.result = "True" <=> (lock /\ LockClaimed(gate)))

----------------------------------------------------------------------------
(* Concurrent delivery: a request being answered while the engine fires a  *)
(* bound callback, both on the transport of client c1.  Each call of       *)
(* post_callback is one step; nothing in _process_bytes, callback or       *)
(* _process_method_call holds a lock across two of them.                   *)

InitConc ==
    /\ lock = FALSE
    /\ tables = [n \in TableNames |-> TableH]
    /\ views = [n \in ViewNames |-> IF n = "v" THEN "c1" ELSE Absent]
    /\ callbacks = <<>>
    /\ bound \in {{[id |-> i, to |-> "c1"]} : i \in SubscribeIds}
    /\ pc = "idle"
    /\ last = Idle
    /\ posted = <<>>
    /\ calls = <<>>
    /\ wire = <<>>
    /\ thr = NoThreads
    /\ gate = NoGate

\* the request thread enters lines 146-155 with the result of the backend
StartRequest ==
    /\ thr["request"] = <<>>
    /\ \E i \in Ids, m \in {"to_arrow", "to_csv"}, out \in {"null", "bytes"} :
          LET msg == [Msg(i, "view_method") EXCEPT !.name = "v", !.method = m,
                                                   !.has_args = TRUE]
          IN  thr' = [thr EXCEPT !["request"] =
                        Respond(msg, "c1", Invoke(ViewGet("v"), "v", m, <<>>, {}, out))]
    /\ UNCHANGED <<dispatchVars, wire, gate>>

\* the engine thread fires a bound callback
StartEngine ==
    /\ thr["engine"] = <<>>
    /\ \E cb \in bound, port \in Ports, arg2 \in {"absent", "bytes"} :
          thr' = [thr EXCEPT !["engine"] = Callback(cb, port, arg2)]
    /\ UNCHANGED <<dispatchVars, wire, gate>>

\* one call of post_callback by thread t
Post(t) ==
    /\ thr[t] # <<>>
    /\ Len(wire) < MaxWire
    /\ wire' = Append(wire, [frame |-> Head(thr[t]), by |-> t])
    /\ thr' = [thr EXCEPT ![t] = Tail(thr[t])]
    /\ UNCHANGED <<dispatchVars, gate>>

PostRequest == Post("request")
PostEngine == Post("engine")

NextConc ==
    \/ StartRequest
    \/ StartEngine
    \/ PostRequest
    \/ PostEngine

SpecConc == InitConc /\ [][NextConc]_vars

\* C8: on the transport every binary frame is immediately preceded by the
\* announcement of its own transfer, in every interleaving.
C8_PairNeverSeparated ==
    \A i \in 1..Len(wire) :
        wire[i].frame.binary
        => /\ i > 1
           /\ wire[i - 1].by = wire[i].by
           /\ ~wire[i - 1].frame.binary
           /\ wire[i - 1].frame.text.is_transferable

====
